---- MODULE Spec2Model ----
(***************************************************************************)
(* Model of app/main.py: a URL shortener over a relational Store (table    *)
(* "url", SQLModel/PostgreSQL) and a look-aside Cache (redis.asyncio).     *)
(*                                                                         *)
(* Every HTTP request in flight is a record of its handler's locals, and   *)
(* the requests in flight are a bag of such records.  create_short_url and *)
(* get_url_stats are plain "def" handlers, which FastAPI runs on threads   *)
(* of a pool; redirect_to_target_url is an "async def" handler that runs   *)
(* on the one event loop and yields only at its "await redis_client..."    *)
(* points.  One step of the model is one statement against the Store or    *)
(* the Cache, together with the local statements that lead to it: a        *)
(* request arrives with its first such statement and leaves with its last, *)
(* and the response it leaves with is visible in the state that its last   *)
(* step leads to.                                                          *)
(***************************************************************************)
EXTENDS Integers, Sequences, FiniteSets, Bags, TLC

\* ------------------------------------------------------------------ bounds
\* Number of HTTP requests in flight at a time.
NReq == 3
\* Resolves that a run lets past the Cache.
MaxClicks == 3

\* ------------------------------------------------------- program constants
HTTP_200_OK == 200
HTTP_307_TEMPORARY_REDIRECT == 307
HTTP_404_NOT_FOUND == 404
HTTP_409_CONFLICT == 409
\* An exception no handler catches: FastAPI answers 500.
HTTP_500_INTERNAL_SERVER_ERROR == 500

\* ------------------------------------------------------------------ inputs
\* The code space of generate_short_code, cut down to two codes.
Codes == {"a", "b"}
\* URLCreate.short_code = None (an empty string is falsy as well).
NoCode == ""
\* Target URLs (non-empty strings).
Urls == {"u1", "u2"}
\* None, where the program has a string or nothing: a redis get of a key
\* that is not there, the local target_url before it is set.
Nil == "nil"

VARIABLES
    urls,          \* the Store: rows of table "url", in insertion order
    cache,         \* the Cache: redis key -> value, Nil where there is no key
    redis_client,  \* the global handle: "None" or "client"
    redis_up,      \* whether the redis server answers
    requests,      \* the bag of requests in flight (see Request)
    misses,        \* resolves that committed a click, so far
    response       \* the response that the last step sent, if it sent one

vars == <<urls, cache, redis_client, redis_up, requests, misses, response>>

handle == <<redis_client, redis_up>>

\* ------------------------------------------------------------- data model
\* class URL(URLBase, table=True): a row; id 0 stands for "no row" (None).
URL(id, code, target) ==
    [id |-> id, short_code |-> code, target_url |-> target,
     is_active |-> TRUE, clicks |-> 0]

NoRow == [id |-> 0, short_code |-> NoCode, target_url |-> Nil,
          is_active |-> FALSE, clicks |-> 0]

\* class URLCreate(URLBase): the body of POST /shorten.
URLCreate(target, code) == [target_url |-> target, short_code |-> code]

NoBody == URLCreate(Nil, NoCode)

\* A request in flight: pc is the statement it stands before, url the body
\* of a create, short_code the handler's short_code (the path parameter of a
\* resolve, the local of a create), db_url the ORM object it loaded or added.
Request(pc, body, code, row) ==
    [pc |-> pc, url |-> body, short_code |-> code, db_url |-> row]

Min(S) == CHOOSE x \in S : \A y \in S : x <= y

\* select(URL).where(URL.short_code == code) ... .first()
RowsOf(code) == {i \in DOMAIN urls : urls[i].short_code = code}

get_db_url_by_code(code) ==
    IF RowsOf(code) = {} THEN NoRow ELSE urls[Min(RowsOf(code))]

\* Mutant: a table without the unique index.
UniqueViolation_no_index(code) == FALSE

\* The unique index on url.short_code (Field(unique=True)): an INSERT of a
\* code that a row already has raises IntegrityError.
UniqueViolation(code) == RowsOf(code) # {}

\* ---------------------------------------------------------- initial state
NoResponse ==
    [op |-> "none", status |-> 0, supplied |-> FALSE, short_code |-> NoCode,
     location |-> Nil, body |-> NoRow, via |-> "none"]

\* The state after startup.  lifespan() sets redis_client to a client object
\* whether or not the ping succeeded; without lifespan (the test client of
\* tests/test_main.py) redis_client stays None.  The table and redis are
\* empty.
Init ==
    /\ urls = <<>>
    /\ cache = [c \in Codes |-> Nil]
    /\ \/ redis_client = "None" /\ redis_up = FALSE
       \/ redis_client = "client" /\ redis_up \in BOOLEAN
    /\ requests = EmptyBag
    /\ misses = 0
    /\ response = NoResponse

\* ------------------------------------------------------- requests in flight
InFlight == BagToSet(requests)

\* A request arrives and runs up to its next statement, where it stands as q.
Enter(q) ==
    /\ BagCardinality(requests) < NReq
    /\ requests' = requests (+) SetToBag({q})
    /\ response' = NoResponse

\* Request q goes on to its next statement, where it stands as q2.
Goto(q, q2) ==
    /\ requests' = (requests (-) SetToBag({q})) (+) SetToBag({q2})
    /\ response' = NoResponse

\* Request q ends with the response resp.
Leave(q, resp) ==
    /\ requests' = requests (-) SetToBag({q})
    /\ response' = resp

\* A request ends with the response resp at the statement it arrived with.
Answer(resp) ==
    /\ BagCardinality(requests) < NReq
    /\ requests' = requests
    /\ response' = resp

\* The responses.  op is the endpoint and short_code the code the request
\* was about; supplied tells whether the caller of a create chose the code;
\* location is the url of the RedirectResponse; body is the returned row;
\* via is the statement that ended the request.
Created(body, row) ==
    [op |-> "create", status |-> HTTP_200_OK,
     supplied |-> body.short_code # NoCode, short_code |-> row.short_code,
     location |-> Nil, body |-> row, via |-> "return"]

CreateFailed(code, body, short_code, via) ==
    [op |-> "create", status |-> code,
     supplied |-> body.short_code # NoCode, short_code |-> short_code,
     location |-> Nil, body |-> NoRow, via |-> via]

Stats(code, short_code, row) ==
    [op |-> "stats", status |-> code, supplied |-> FALSE,
     short_code |-> short_code, location |-> Nil, body |-> row,
     via |-> "select"]

Redirect(short_code, location, via) ==
    [op |-> "resolve", status |-> HTTP_307_TEMPORARY_REDIRECT,
     supplied |-> FALSE, short_code |-> short_code, location |-> location,
     body |-> NoRow, via |-> via]

ResolveFailed(code, short_code, via) ==
    [op |-> "resolve", status |-> code, supplied |-> FALSE,
     short_code |-> short_code, location |-> Nil, body |-> NoRow, via |-> via]

\* ------------------------------------------------------- create_short_url
\* Mutant: the conflicting create overwrites the row it found.
CreateSupplied_upsert ==
    /\ \E t \in Urls, c \in Codes :
          IF get_db_url_by_code(c).id # 0
          THEN /\ urls' = [urls EXCEPT ![get_db_url_by_code(c).id].target_url = t]
               /\ Answer(CreateFailed(HTTP_409_CONFLICT, URLCreate(t, c), c,
                                      "check"))
          ELSE /\ Enter(Request("c_insert", URLCreate(t, c), c, NoRow))
               /\ UNCHANGED urls
    /\ UNCHANGED <<cache, handle, misses>>

\* POST /shorten with a short_code: "if url.short_code:" and the existence
\* check of the caller-supplied code.
CreateSupplied ==
    /\ \E t \in Urls, c \in Codes :
          IF get_db_url_by_code(c).id # 0
          THEN Answer(CreateFailed(HTTP_409_CONFLICT, URLCreate(t, c), c, "check"))
          ELSE Enter(Request("c_insert", URLCreate(t, c), c, NoRow))
    /\ UNCHANGED <<urls, cache, handle, misses>>

\* POST /shorten without a short_code: the first turn of "while True:", a
\* draw of generate_short_code() and its existence check.  The request goes
\* on to the insert with an unused code and to the next turn otherwise.
CreateGenerate ==
    /\ \E t \in Urls, c \in Codes :
          Enter(IF get_db_url_by_code(c).id = 0
                THEN Request("c_insert", URLCreate(t, NoCode), c, NoRow)
                ELSE Request("c_check", URLCreate(t, NoCode), NoCode, NoRow))
    /\ UNCHANGED <<urls, cache, handle, misses>>

\* Mutant: the generator repeats the draw that collided.
CreateRedraw_same_draw(q) ==
    /\ q.pc = "c_check"
    /\ Goto(q, q)
    /\ UNCHANGED <<urls, cache, handle, misses>>

\* A later turn of the loop, after a collision.
CreateRedraw(q) ==
    /\ q.pc = "c_check"
    /\ \E c \in Codes :
          Goto(q, IF get_db_url_by_code(c).id = 0
                  THEN Request("c_insert", q.url, c, NoRow)
                  ELSE q)
    /\ UNCHANGED <<urls, cache, handle, misses>>

\* The Store after INSERT INTO url of a new row (ids count from 1).
InsertRow(code, target) == Append(urls, URL(Len(urls) + 1, code, target))

\* The Cache after create_short_url's "redis_client.set(short_code, ...)".
\* redis_client is a redis.asyncio client and the handler is a plain def:
\* the call builds a coroutine that is never awaited, so no SET is sent.
CacheAfterCreate(q) == cache

\* Mutant: the handler awaits the set, and a Cache that does not answer
\* fails the create after its insert.
CreateCommit_awaits_set(q) ==
    /\ q.pc = "c_insert"
    /\ IF UniqueViolation(q.short_code)
       THEN /\ Leave(q, CreateFailed(HTTP_500_INTERNAL_SERVER_ERROR, q.url,
                                     q.short_code, "commit"))
            /\ UNCHANGED <<urls, cache>>
       ELSE /\ urls' = InsertRow(q.short_code, q.url.target_url)
            /\ IF redis_client # "None" /\ ~redis_up
               THEN /\ Leave(q, CreateFailed(HTTP_500_INTERNAL_SERVER_ERROR,
                                             q.url, q.short_code, "set"))
                    /\ UNCHANGED cache
               ELSE /\ cache' = IF redis_client # "None"
                                THEN [cache EXCEPT ![q.short_code] =
                                                       q.url.target_url]
                                ELSE cache
                    /\ Leave(q, Created(q.url, URL(Len(urls) + 1, q.short_code,
                                                   q.url.target_url)))
    /\ UNCHANGED <<handle, misses>>

\* db_url = URL(...); session.add(db_url); session.commit().  The unique
\* index refuses a second row of the same code: IntegrityError, which no
\* handler catches.  After the commit the handler reads its new row back
\* (session.refresh), calls redis_client.set if there is a client, and
\* returns the row.
CreateCommit(q) ==
    /\ q.pc = "c_insert"
    /\ IF UniqueViolation(q.short_code)
       THEN /\ Leave(q, CreateFailed(HTTP_500_INTERNAL_SERVER_ERROR, q.url,
                                     q.short_code, "commit"))
            /\ UNCHANGED <<urls, cache>>
       ELSE /\ urls' = InsertRow(q.short_code, q.url.target_url)
            /\ cache' = IF redis_client # "None" THEN CacheAfterCreate(q)
                                                 ELSE cache
            /\ Leave(q, Created(q.url, URL(Len(urls) + 1, q.short_code,
                                           q.url.target_url)))
    /\ UNCHANGED <<handle, misses>>

\* ---------------------------------------------------------- get_url_stats
\* Mutant: a look at the statistics counts as a click.
GetUrlStats_counts_view ==
    /\ \E c \in Codes :
          IF get_db_url_by_code(c).id = 0
          THEN Answer(Stats(HTTP_404_NOT_FOUND, c, NoRow)) /\ UNCHANGED urls
          ELSE /\ Answer(Stats(HTTP_200_OK, c, get_db_url_by_code(c)))
               /\ urls' = [urls EXCEPT ![get_db_url_by_code(c).id].clicks = @ + 1]
    /\ UNCHANGED <<cache, handle, misses>>

\* GET /stats/{short_code}
GetUrlStats ==
    /\ \E c \in Codes :
          IF get_db_url_by_code(c).id = 0
          THEN Answer(Stats(HTTP_404_NOT_FOUND, c, NoRow))
          ELSE Answer(Stats(HTTP_200_OK, c, get_db_url_by_code(c)))
    /\ UNCHANGED <<urls, cache, handle, misses>>

\* ------------------------------------------------- redirect_to_target_url
ResolvePcs == {"r_lookup", "r_set", "r_commit"}

\* The number of resolves in flight.
Resolving ==
    BagCardinality([q \in {x \in InFlight : x.pc \in ResolvePcs} |->
                       CopiesIn(q, requests)])

\* The handler is a coroutine of the one event loop.  With a client it
\* yields at each await, and each stretch between two awaits holds one
\* Store or Cache statement.  Without a client it has no await: from its
\* first Store statement to its return no other coroutine runs (threads of
\* the pool, and other clients of the database, still do).
LoopFree ==
    redis_client = "None" => \A x \in InFlight : x.pc # "r_commit"

\* Mutant: a redirect from the Cache counts a click as well.
ResolveCacheGet_counts_hit ==
    /\ misses + Resolving < MaxClicks
    /\ \E c \in Codes :
          IF redis_client = "None"
          THEN Enter(Request("r_lookup", NoBody, c, NoRow)) /\ UNCHANGED urls
          ELSE IF ~redis_up
          THEN /\ Answer(ResolveFailed(HTTP_500_INTERNAL_SERVER_ERROR, c, "get"))
               /\ UNCHANGED urls
          ELSE IF cache[c] # Nil
          THEN /\ Answer(Redirect(c, cache[c], "get"))
               /\ urls' = [urls EXCEPT ![get_db_url_by_code(c).id].clicks = @ + 1]
          ELSE Enter(Request("r_lookup", NoBody, c, NoRow)) /\ UNCHANGED urls
    /\ UNCHANGED <<cache, handle, misses>>

\* GET /{short_code}: target_url = None;
\* if redis_client: target_url = await redis_client.get(short_code);
\* "if not target_url:" decides between the redirect and the Store.
ResolveCacheGet ==
    /\ misses + Resolving < MaxClicks
    /\ \E c \in Codes :
          IF redis_client = "None"
          THEN Enter(Request("r_lookup", NoBody, c, NoRow))
          ELSE IF ~redis_up
          THEN Answer(ResolveFailed(HTTP_500_INTERNAL_SERVER_ERROR, c, "get"))
          ELSE IF cache[c] # Nil
          THEN Answer(Redirect(c, cache[c], "get"))
          ELSE Enter(Request("r_lookup", NoBody, c, NoRow))
    /\ UNCHANGED <<urls, cache, handle, misses>>

\* Mutant: the lookup does not test is_active.
ResolveLookup_serves_inactive(q) ==
    /\ q.pc = "r_lookup"
    /\ LoopFree
    /\ LET row == get_db_url_by_code(q.short_code) IN
       IF row.id = 0
       THEN Leave(q, ResolveFailed(HTTP_404_NOT_FOUND, q.short_code, "select"))
       ELSE Goto(q, Request(IF redis_client = "None" THEN "r_commit" ELSE "r_set",
                            NoBody, q.short_code, row))
    /\ UNCHANGED <<urls, cache, handle, misses>>

\* db_url = get_db_url_by_code(...); "if not db_url or not db_url.is_active"
ResolveLookup(q) ==
    /\ q.pc = "r_lookup"
    /\ LoopFree
    /\ LET row == get_db_url_by_code(q.short_code) IN
       IF row.id = 0 \/ ~row.is_active
       THEN Leave(q, ResolveFailed(HTTP_404_NOT_FOUND, q.short_code, "select"))
       ELSE Goto(q, Request(IF redis_client = "None" THEN "r_commit" ELSE "r_set",
                            NoBody, q.short_code, row))
    /\ UNCHANGED <<urls, cache, handle, misses>>

\* Mutant: the url is taken from the first row of the table.
TargetUrl_of_first_row(q) == urls[1].target_url

\* target_url = db_url.target_url
TargetUrl(q) == q.db_url.target_url

\* if redis_client: await redis_client.set(short_code, target_url)
ResolveCacheSet(q) ==
    /\ q.pc = "r_set"
    /\ IF ~redis_up
       THEN /\ Leave(q, ResolveFailed(HTTP_500_INTERNAL_SERVER_ERROR,
                                      q.short_code, "set"))
            /\ UNCHANGED cache
       ELSE /\ cache' = [cache EXCEPT ![q.short_code] = TargetUrl(q)]
            /\ Goto(q, Request("r_commit", NoBody, q.short_code, q.db_url))
    /\ UNCHANGED <<urls, handle, misses>>

\* Mutant: a resolve counts two clicks.
ClicksAfterIncrement_twice(row) == row.clicks + 2

\* db_url.clicks += 1: the new value is computed from the loaded object.
ClicksAfterIncrement(row) == row.clicks + 1

\* Mutant: the commit writes the whole loaded object back.
ResolveCommit_writes_object(q) ==
    /\ q.pc = "r_commit"
    /\ urls' = [urls EXCEPT ![q.db_url.id] =
                    [q.db_url EXCEPT !.clicks = ClicksAfterIncrement(q.db_url)]]
    /\ misses' = misses + 1
    /\ Leave(q, Redirect(q.short_code, TargetUrl(q), "commit"))
    /\ UNCHANGED <<cache, handle>>

\* session.add(db_url); session.commit(): UPDATE url SET clicks = <value>
\* WHERE id = <db_url.id>; then the RedirectResponse.
ResolveCommit(q) ==
    /\ q.pc = "r_commit"
    /\ urls' = [urls EXCEPT ![q.db_url.id].clicks = ClicksAfterIncrement(q.db_url)]
    /\ misses' = misses + 1
    /\ Leave(q, Redirect(q.short_code, TargetUrl(q), "commit"))
    /\ UNCHANGED <<cache, handle>>

\* ------------------------------------------------------------ environment
\* Mutant: clearing is_active drops the code's Cache entry.
Deactivate_invalidates(i) ==
    /\ urls[i].is_active
    /\ urls' = [urls EXCEPT ![i].is_active = FALSE]
    /\ cache' = [cache EXCEPT ![urls[i].short_code] = Nil]
    /\ response' = NoResponse
    /\ UNCHANGED <<handle, requests, misses>>

\* is_active has no endpoint: it is cleared in the database, out of band.
Deactivate(i) ==
    /\ urls[i].is_active
    /\ urls' = [urls EXCEPT ![i].is_active = FALSE]
    /\ response' = NoResponse
    /\ UNCHANGED <<cache, handle, requests, misses>>

\* --------------------------------------------------------- specification
Next ==
    \/ CreateSupplied
    \/ CreateGenerate
    \/ \E q \in InFlight : CreateRedraw(q)
    \/ \E q \in InFlight : CreateCommit(q)
    \/ GetUrlStats
    \/ ResolveCacheGet
    \/ \E q \in InFlight : ResolveLookup(q)
    \/ \E q \in InFlight : ResolveCacheSet(q)
    \/ \E q \in InFlight : ResolveCommit(q)
    \/ \E i \in DOMAIN urls : Deactivate(i)

Spec == Init /\ [][Next]_vars

\* ----------------------------------------------------- a Store that fails
\* session.commit() of the resolve raises (OperationalError: the database
\* does not answer).  The UPDATE is rolled back, no handler catches the
\* exception, and FastAPI answers 500.
ResolveCommitFails(q) ==
    /\ q.pc = "r_commit"
    /\ Leave(q, ResolveFailed(HTTP_500_INTERNAL_SERVER_ERROR, q.short_code,
                              "commit"))
    /\ UNCHANGED <<urls, cache, handle, misses>>

NextStoreFails ==
    \/ Next
    \/ \E q \in InFlight : ResolveCommitFails(q)

\* The program with a database that may fail the commit of a resolve.
SpecStoreFails == Init /\ [][NextStoreFails]_vars

\* ------------------------------------------------- creates, with fairness
\* The creates alone (no other operation reads or writes what the loop of
\* the generator reads: the short_code of the rows).
NextCreate ==
    \/ CreateSupplied
    \/ CreateGenerate
    \/ \E q \in InFlight : CreateRedraw(q)
    \/ \E q \in InFlight : CreateCommit(q)

\* A create that stands in the loop of the generator, with target t.
Looper(t) == Request("c_check", URLCreate(t, NoCode), NoCode, NoRow)

\* The draw of a looping create found an unused code.
DrawUnused(t) == CreateRedraw(Looper(t)) /\ requests' # requests

\* secrets.choice draws uniformly and independently: a create that draws
\* again and again, with an unused code there again and again, draws one in
\* the end.  A thread of the pool that stands before its commit runs it.
SpecFair ==
    /\ Init
    /\ [][NextCreate]_vars
    /\ \A t \in Urls : SF_vars(DrawUnused(t))
    /\ WF_vars(\E q \in InFlight : CreateCommit(q))

\* ================================================================ claims
\* The row of code c, NoRow if there is none.
Row(c) == get_db_url_by_code(c)

\* This step is the last step of the request that stood as q.
Left(q) == CopiesIn(q, requests') < CopiesIn(q, requests)

\* This step brought in the request that now stands as q.
Entered(q) == CopiesIn(q, requests') > CopiesIn(q, requests)

SumClicks[i \in 0..Len(urls)] ==
    IF i = 0 THEN 0 ELSE SumClicks[i - 1] + urls[i].clicks

\* C1: round trip.  A resolve of a code that has an active row ends with a
\* 307 redirect to that row's target_url.  (Rows are never removed, so the
\* row of a create that returned is there at every later step.)
C1_RoundTrip ==
    (/\ response.op = "resolve"
     /\ Row(response.short_code).id # 0
     /\ Row(response.short_code).is_active)
    => /\ response.status = HTTP_307_TEMPORARY_REDIRECT
       /\ response.location = Row(response.short_code).target_url

\* C2: no two rows of the Store have the same short_code.
C2_UniqueShortCode ==
    \A i, j \in DOMAIN urls :
        i # j => urls[i].short_code # urls[j].short_code

\* Two creates raced for one code and the Store refused the second insert.
C2_Witness ==
    /\ response.op = "create"
    /\ response.via = "commit"
    /\ RowsOf(response.short_code) # {}
    /\ Len(urls) = 2

\* One step, as C3 wants it.
C3_Step ==
    /\ (response'.op = "create" /\ response'.status = HTTP_409_CONFLICT)
       => /\ response'.supplied
          /\ Row(response'.short_code).id # 0
          /\ urls' = urls
          /\ cache' = cache
          /\ requests' = requests
    /\ \A q \in BagToSet(requests') :
          (q.pc = "c_insert" /\ q.url.short_code # NoCode /\ Entered(q))
          => Row(q.short_code).id = 0

\* C3: a create of a caller-supplied code that has a row at the existence
\* check ends with 409 and changes neither the Store nor the Cache; and 409
\* is sent only then.
C3_ConflictChangesNothing == [][C3_Step]_vars

\* A 409 for a code whose row has been counted and cached.
C3_Witness ==
    /\ response.op = "create"
    /\ response.status = HTTP_409_CONFLICT
    /\ Row(response.short_code).clicks > 0
    /\ cache[response.short_code] # Nil

\* One step, as C4 wants it.
C4_Step ==
    /\ \A q \in InFlight :
          (/\ q.pc = "r_lookup"
           /\ Left(q)
           /\ (Row(q.short_code).id = 0 \/ ~Row(q.short_code).is_active))
          => /\ response' = ResolveFailed(HTTP_404_NOT_FOUND, q.short_code,
                                          "select")
             /\ urls' = urls
             /\ cache' = cache
    /\ (response'.op = "resolve" /\ response'.status = HTTP_404_NOT_FOUND)
       => /\ Row(response'.short_code).id = 0
             \/ ~Row(response'.short_code).is_active
          /\ urls' = urls
          /\ cache' = cache

C5_Step ==
    \A q \in InFlight :
        (q.pc = "r_commit" /\ Left(q) /\ urls[q.db_url.id] = q.db_url)
        => /\ urls' = [urls EXCEPT ![q.db_url.id].clicks = @ + 1]
           /\ redis_client = "client"
              => cache'[q.short_code] = urls[q.db_url.id].target_url
           /\ response' = Redirect(q.short_code,
                                   urls[q.db_url.id].target_url, "commit")

\* C5: a resolve past the Cache whose row is, at its commit, as the resolve
\* loaded it (no other request touched it in between) raises the row's
\* clicks by exactly 1, leaves the Cache entry code -> target_url where
\* there is a Cache, and redirects to that target_url.
C5_MissCountsOneClick == [][C5_Step]_vars

\* A resolve came through the Cache miss path: one click, the entry is set.
C5_Witness ==
    /\ response.op = "resolve"
    /\ response.via = "commit"
    /\ redis_client = "client"
    /\ Row(response.short_code).clicks = 1
    /\ cache[response.short_code] = response.location

\* One step, as C6 wants it.
C6_Step ==
    /\ (response'.op = "resolve" /\ response'.via = "get"
        /\ response'.status = HTTP_307_TEMPORARY_REDIRECT)
       => /\ cache[response'.short_code] # Nil
          /\ response'.location = cache[response'.short_code]
          /\ urls' = urls
          /\ cache' = cache
          /\ misses' = misses
    /\ \A q \in BagToSet(requests') :
          (q.pc = "r_lookup" /\ Entered(q) /\ redis_client = "client")
          => cache[q.short_code] = Nil

\* C6: a resolve that finds its code in the Cache redirects to the cached
\* url and leaves the Store (and the Cache) as they are; and a resolve whose
\* code is in the Cache goes no further than the Cache.
C6_HitLeavesStore == [][C6_Step]_vars

\* A Cache hit for a code whose row has one click from the miss before.
C6_Witness ==
    /\ response.op = "resolve"
    /\ response.via = "get"
    /\ response.status = HTTP_307_TEMPORARY_REDIRECT
    /\ Row(response.short_code).clicks = 1
    /\ misses = 1

\* C7: no lost update.  When the resolves that went past the Cache have all
\* completed, the clicks of the rows add up to the number of those resolves.
C7_NoLostUpdate ==
    Resolving = 0 => SumClicks[Len(urls)] = misses

\* C8: write-through on create.  With the Cache available, a create that
\* returns leaves the entry short_code -> target_url in the Cache.
C8_CreatePrimesCache ==
    (/\ response.op = "create"
     /\ response.status = HTTP_200_OK
     /\ redis_client = "client"
     /\ redis_up)
    => cache[response.short_code] = response.body.target_url

\* C9: with the Cache unavailable (no client, or a client of a server that
\* does not answer), a resolve of a code with an active row ends with a 307
\* redirect to the row's target_url.
C9_CacheNeverFatal ==
    (/\ response.op = "resolve"
     /\ redis_client = "None" \/ ~redis_up
     /\ Row(response.short_code).id # 0
     /\ Row(response.short_code).is_active)
    => /\ response.status = HTTP_307_TEMPORARY_REDIRECT
       /\ response.location = Row(response.short_code).target_url

\* C10: a create of a caller-supplied code that does not succeed ends with
\* 409, also when it lost the race for the code at the insert.
C10_RaceEndsInConflict ==
    (/\ response.op = "create"
     /\ response.supplied
     /\ response.status # HTTP_200_OK)
    => response.status = HTTP_409_CONFLICT

\* One step, as C11 wants it.
C11_Step ==
    /\ \A c \in Codes : cache[c] # Nil => cache'[c] = cache[c]
    /\ \A q \in BagToSet(requests') :
          (q.pc = "r_lookup" /\ Entered(q)) => cache[q.short_code] = Nil
    /\ (/\ response'.op = "resolve"
        /\ response'.via = "get"
        /\ cache[response'.short_code] # Nil)
       => /\ response'.status = HTTP_307_TEMPORARY_REDIRECT
          /\ response'.location = cache[response'.short_code]

\* C11: stale active flag.  No step removes or changes a Cache entry, and a
\* resolve that arrives for a code with a Cache entry redirects to the cached
\* url and goes no further, whatever is_active says in the Store.
C11_StaleEntryServed == [][C11_Step]_vars

\* A redirect from the Cache for a code whose row is no longer active.
C11_Witness ==
    /\ response.op = "resolve"
    /\ response.via = "get"
    /\ response.status = HTTP_307_TEMPORARY_REDIRECT
    /\ Row(response.short_code).id # 0
    /\ ~Row(response.short_code).is_active
    /\ response.location = Row(response.short_code).target_url

\* One step, as C12 wants it.
C12_Step ==
    response'.op = "stats"
    => /\ urls' = urls
       /\ cache' = cache
       /\ requests' = requests
       /\ misses' = misses
       /\ IF Row(response'.short_code).id = 0
          THEN /\ response'.status = HTTP_404_NOT_FOUND
               /\ response'.body = NoRow
          ELSE /\ response'.status = HTTP_200_OK
               /\ response'.body.short_code = Row(response'.short_code).short_code
               /\ response'.body.target_url = Row(response'.short_code).target_url
               /\ response'.body.clicks = Row(response'.short_code).clicks
               /\ response'.body.is_active = Row(response'.short_code).is_active

\* C12: get-stats is a pure read.  It answers 404 for a code without a row
\* and otherwise 200 with the stored short_code, target_url, clicks and
\* is_active of the row, active or not; it changes neither the Store nor the
\* Cache.
C12_StatsPureRead == [][C12_Step]_vars

\* Statistics of an inactive row, with a Cache that works and holds nothing
\* for the code.
C12_Witness ==
    /\ response.op = "stats"
    /\ response.status = HTTP_200_OK
    /\ ~response.body.is_active
    /\ redis_client = "client"
    /\ redis_up
    /\ cache[response.short_code] = Nil

\* C13: a create that generates its code never ends in a uniqueness
\* failure: it ends with 200.
C13_GeneratedNeverCollides ==
    (response.op = "create" /\ ~response.supplied)
    => response.status = HTTP_200_OK

\* C14: no partial success.  A resolve whose commit of the click fails ends
\* with an error and leaves nothing behind: when no resolve has counted a
\* click yet and no other resolve is in flight, the row's clicks is 0 and the
\* Cache has no entry for the code (an entry there can only come from this
\* resolve or from one that failed in the same way before it).
C14_NoPartialSuccess ==
    (/\ response.op = "resolve"
     /\ response.via = "commit"
     /\ response.status = HTTP_500_INTERNAL_SERVER_ERROR
     /\ misses = 0
     /\ Resolving = 0)
    => /\ Row(response.short_code).clicks = 0
       /\ cache[response.short_code] = Nil

\* One step, as C15 wants it.
C15_Step ==
    \A q \in InFlight :
        (q.pc = "c_insert" /\ Left(q) /\ Row(q.short_code).id = 0)
        => /\ urls' = Append(urls, URL(Len(urls) + 1, q.short_code,
                                       q.url.target_url))
           /\ response'.op = "create"
           /\ response'.status = HTTP_200_OK
           /\ response'.body = urls'[Len(urls')]

\* C15: a Cache failure never fails a create.  A create whose insert the
\* Store accepts persists the row of its code and target_url and returns it
\* with 200, whatever the state of the Cache (no client, a server that does
\* not answer, a server that answers).
C15_CacheNeverFailsCreate == [][C15_Step]_vars

\* A create returned its row while the redis server did not answer.
C15_Witness ==
    /\ response.op = "create"
    /\ response.status = HTTP_200_OK
    /\ redis_client = "client"
    /\ ~redis_up
    /\ response.body = urls[Len(urls)]

\* Some create stands in the loop of the generator.
Looping == \E q \in InFlight : q.pc = "c_check"

\* The codes that no row has.
Unused == {c \in Codes : Row(c).id = 0}

\* One step, as C16 wants it.
C16_Step ==
    \A q \in InFlight :
        (q.pc = "c_check" /\ Left(q))
        => /\ response' = NoResponse
           /\ \E c \in Unused :
                 requests' = (requests (-) SetToBag({q}))
                             (+) SetToBag({Request("c_insert", q.url, c, NoRow)})

\* C16: termination of code generation.  A create leaves the loop of the
\* generator only with a code that no row has, never with an error (there is
\* no retry ceiling); and under fair draws, when creates stand in the loop
\* and a code is unused, then in the end no create stands in the loop or no
\* code is unused.
C16_GenerationTerminates ==
    /\ [][C16_Step]_vars
    /\ (Looping /\ Unused # {}) ~> (~Looping \/ Unused = {})

\* A create collided and stands in the loop while a code is unused and
\* another generating create has drawn it.
C16_Witness ==
    /\ Looping
    /\ Unused # {}
    /\ \E q \in InFlight :
          q.pc = "c_insert" /\ q.url.short_code = NoCode /\ q.short_code \in Unused

\* This step is a step of a resolve of code c.
ResolveStep(c) ==
    \/ \E q \in InFlight :
          q.pc \in ResolvePcs /\ q.short_code = c /\ Left(q)
    \/ \E q \in BagToSet(requests') :
          q.pc = "r_lookup" /\ q.short_code = c /\ Entered(q)
    \/ response'.op = "resolve" /\ response'.short_code = c

\* One step, as C17 wants it.
C17_Step ==
    /\ Len(urls') >= Len(urls)
    /\ \A i \in DOMAIN urls :
          /\ urls'[i].id = urls[i].id
          /\ urls'[i].short_code = urls[i].short_code
          /\ urls'[i].target_url = urls[i].target_url
    /\ \A c \in Codes :
          ResolveStep(c)
          => /\ Len(urls') = Len(urls)
             /\ \A i \in DOMAIN urls :
                   /\ urls'[i].is_active = urls[i].is_active
                   /\ urls[i].short_code # c => urls'[i] = urls[i]
             /\ \A d \in Codes \ {c} : cache'[d] = cache[d]

\* C17: records are immutable except for clicks and is_active.  No step
\* removes a row or changes the id, short_code or target_url of a row; a
\* step of a resolve changes at most the clicks of the row of its code and
\* the Cache entry of its code.
C17_RecordsImmutable == [][C17_Step]_vars

\* A resolve committed its click to a row that was deactivated after the
\* resolve had loaded it, next to a second row.
C17_Witness ==
    /\ response.op = "resolve"
    /\ response.via = "commit"
    /\ Len(urls) = 2
    /\ Row(response.short_code).clicks = 1
    /\ ~Row(response.short_code).is_active

\* C18: Cache coherence.  Every Cache entry code -> url belongs to a row of
\* the Store with that short_code and that target_url.
C18_CacheCoherent ==
    \A c \in Codes :
        cache[c] # Nil => /\ Row(c).id # 0
                          /\ Row(c).target_url = cache[c]

\* Two codes with different target URLs are in the Cache.
C18_Witness ==
    \E c, d \in Codes :
        /\ cache[c] # Nil
        /\ cache[d] # Nil
        /\ cache[c] # cache[d]

\* C19: the click counter is monotonic.  No step lowers the clicks of a
\* row, and clicks is never negative.
C19_ClicksMonotonic ==
    [][\A i \in DOMAIN urls : /\ urls'[i].clicks >= urls[i].clicks
                              /\ urls'[i].clicks >= 0]_vars

====
